---- MODULE Spec2Model ----
(***************************************************************************)
(* BookBuilder: the chapter collection, the statistics report and the      *)
(* progress ledger (src/core/chapter.py, src/services/statistics.py), and  *)
(* the part of BookGenerator (src/BookBuilder.py) that drives them.        *)
(*                                                                         *)
(* Numbers.  A chapter number is a Python float; it is held here in tenths *)
(* (35 is chapter 3.5).  A Python true division a / b is held as the       *)
(* fraction in lowest terms, [num, den].                                   *)
(***************************************************************************)
EXTENDS Integers, Sequences, FiniteSets, TLC

\* Bounds of the model.
MaxChapters == 3
MaxChapterTenths == 45
MaxLedgerChapters == 1
MaxRuns == 3
MaxTextLen == 4
MaxAccesses == 3
MaxTitles == 3

\* Program constants.
FullChapterThreshold == 250
WordsPerPage == 240

VARIABLES
    chapters,   \* ChapterCollection.chapters of the running BookGenerator
    pc,         \* where BookGenerator.run is: "loading" or "done"
    stats,      \* the dict _calculate_statistics returned in this run
    statsFile,  \* the lines of the statistics file
    console,    \* the lines printed by this process
    ledger,     \* the progress CSV file: absent, or its text
    now,        \* the clock pd.Timestamp.now() reads
    raised,     \* the exception generate_statistics ended with, or "none"
    history,    \* ghost: the last two ledger updates, oldest first
    mdFile,     \* one chapter's Markdown file: [exists, readable, text]
    _text,      \* that Chapter's _text: <<>> for None, else <<the text>>
    _word_count,    \* that Chapter's _word_count: <<>> for None, else <<n>>
    probe,      \* ghost: what the accesses to that Chapter did and returned
    chapter_titles, \* Config.chapter_titles
    mdFiles,    \* the Markdown files of the input directory, by title
    outdir,     \* the names of the files in the output directory
    trace,      \* ghost: the steps BookGenerator.run has executed, in order
    result      \* what run returned: <<>> while it runs, else <<code>>

statisticsVars ==
    <<chapters, pc, stats, statsFile, console, ledger, now, raised, history>>

chapterVars == <<mdFile, _text, _word_count, probe>>

runVars == <<chapter_titles, mdFiles, outdir, trace, result>>

vars == <<statisticsVars, chapterVars, runVars>>

----------------------------------------------------------------------------
\* Arithmetic helpers.

RECURSIVE GCD(_, _)
GCD(a, b) == IF b = 0 THEN a ELSE GCD(b, a % b)

\* Python's a / b for integers a >= 0, b > 0: the exact quotient.
TrueDiv(a, b) ==
    LET g == GCD(a, b) IN [num |-> a \div g, den |-> b \div g]

\* Python's int(x) of a non-negative quotient: truncation.
PyInt(q) == q.num \div q.den

\* Python's round(x) of a non-negative float given in tenths: half to even.
PyRound(t) ==
    LET q == t \div 10
        r == t % 10
    IN  IF r < 5 THEN q
        ELSE IF r > 5 THEN q + 1
        ELSE IF q % 2 = 0 THEN q ELSE q + 1

RECURSIVE SumSeq(_)
SumSeq(s) == IF s = <<>> THEN 0 ELSE Head(s) + SumSeq(Tail(s))


----------------------------------------------------------------------------
\* Chapter (src/core/chapter.py).  A chapter is a record
\*   [chapter, part, chapter_length, todos, comments]
\* where the last three are what chapter_length, count_todos() and
\* count_comments() give for its text.

chapter_length(ch) == ch.chapter_length

count_todos(ch) == ch.todos

count_comments(ch) == ch.comments

\* A faulty is_full_chapter: a chapter of exactly the threshold is full.
is_full_chapter_at_threshold(ch) ==
    /\ ch.chapter = 10 * PyRound(ch.chapter)
    /\ chapter_length(ch) >= FullChapterThreshold

is_full_chapter(ch) ==
    /\ ch.chapter = 10 * PyRound(ch.chapter)
    /\ chapter_length(ch) > FullChapterThreshold

\* sum(ch.chapter_length for ch in chs), and the same of count_todos() and
\* count_comments().
SumLengths(chs) == SumSeq([i \in 1..Len(chs) |-> chapter_length(chs[i])])

SumTodos(chs) == SumSeq([i \in 1..Len(chs) |-> count_todos(chs[i])])

SumComments(chs) == SumSeq([i \in 1..Len(chs) |-> count_comments(chs[i])])

----------------------------------------------------------------------------
\* ChapterCollection (src/core/chapter.py).

get_full_chapters(chs) == SelectSeq(chs, is_full_chapter)

\* A variant that returns the full chapters of the part only.
get_full_chapters_by_part(chs, part) ==
    LET InPart(ch) == ch.part = part /\ is_full_chapter(ch)
    IN  SelectSeq(chs, InPart)

get_chapters_by_part(chs, part) ==
    LET InPart(ch) == ch.part = part IN SelectSeq(chs, InPart)

\* A faulty total_word_count: the words of the full chapters only.
total_word_count_full_only(chs) ==
    SumLengths(get_full_chapters(chs))

total_word_count(chs) == SumLengths(chs)

RECURSIVE MaxPart(_)
MaxPart(chs) ==
    IF Len(chs) = 1 THEN chs[1].part
    ELSE LET m == MaxPart(Tail(chs))
         IN  IF chs[1].part >= m THEN chs[1].part ELSE m

\* A faulty number_of_acts: the number of distinct parts.
number_of_acts_distinct(chs) ==
    Cardinality({chs[i].part : i \in 1..Len(chs)})

number_of_acts(chs) ==
    IF chs = <<>> THEN 0 ELSE MaxPart(chs)

\* min(chs, key=lambda c: c.chapter_length) and max(...): the first chapter
\* of the least (the greatest) length.
MinByLength(chs) ==
    chs[CHOOSE i \in 1..Len(chs) :
        /\ \A j \in 1..Len(chs) : chapter_length(chs[i]) <= chapter_length(chs[j])
        /\ \A j \in 1..(i - 1) : chapter_length(chs[j]) # chapter_length(chs[i])]

MaxByLength(chs) ==
    chs[CHOOSE i \in 1..Len(chs) :
        /\ \A j \in 1..Len(chs) : chapter_length(chs[i]) >= chapter_length(chs[j])
        /\ \A j \in 1..(i - 1) : chapter_length(chs[j]) # chapter_length(chs[i])]

\* A faulty get_shortest_chapter: the shortest of all chapters.
get_shortest_chapter_of_all(chs) ==
    IF chs # <<>> THEN <<MinByLength(chs)>> ELSE <<>>

\* An Optional[Chapter] is <<>> (None) or <<ch>>.
get_shortest_chapter(chs) ==
    LET full_chapters == get_full_chapters(chs)
    IN  IF full_chapters # <<>> THEN <<MinByLength(full_chapters)>>
        ELSE <<>>

get_longest_chapter(chs) ==
    LET full_chapters == get_full_chapters(chs)
    IN  IF full_chapters # <<>> THEN <<MaxByLength(full_chapters)>>
        ELSE <<>>

----------------------------------------------------------------------------
\* StatisticsService._calculate_statistics (src/services/statistics.py).

\* The record appended to stats['acts_stats'] for a part that has chapters.
ActStat(chs, part) ==
    LET chapters_in_act == get_chapters_by_part(chs, part)
        act_length == SumLengths(chapters_in_act)
        act_todos == SumTodos(chapters_in_act)
        act_comments == SumComments(chapters_in_act)
    IN  [part |-> part,
         num_chapters |-> Len(chapters_in_act),
         words |-> act_length,
         avg_chapter_length |-> TrueDiv(act_length, Len(chapters_in_act)),
         todos |-> act_todos,
         comments |-> act_comments]

\* A faulty part loop: range(first, last), the last part left out.
RECURSIVE ActsStatsWithoutLast(_, _, _)
ActsStatsWithoutLast(chs, first, last) ==
    IF first >= last THEN <<>>
    ELSE (IF get_chapters_by_part(chs, first) = <<>> THEN <<>>
          ELSE <<ActStat(chs, first)>>)
         \o ActsStatsWithoutLast(chs, first + 1, last)

\* for part in range(first, last + 1): skip a part without chapters.
RECURSIVE ActsStats(_, _, _)
ActsStats(chs, first, last) ==
    IF first > last THEN <<>>
    ELSE (IF get_chapters_by_part(chs, first) = <<>> THEN <<>>
          ELSE <<ActStat(chs, first)>>)
         \o ActsStats(chs, first + 1, last)

\* The keys added when there is a full chapter.
AdditionalStatistics(chs, total_words) ==
    LET full_chapters == get_full_chapters(chs)
        shortest == get_shortest_chapter(chs)
        longest == get_longest_chapter(chs)
    IN  [pages |-> TrueDiv(total_words, WordsPerPage),
         avg_chapter_length |-> TrueDiv(total_words, Len(full_chapters))]
        @@ (IF shortest # <<>>
            THEN [shortest_chapter |->
                     [number |-> shortest[1].chapter \div 10,
                      length |-> chapter_length(shortest[1])]]
            ELSE <<>>)
        @@ (IF longest # <<>>
            THEN [longest_chapter |->
                     [number |-> longest[1].chapter \div 10,
                      length |-> chapter_length(longest[1])]]
            ELSE <<>>)

\* A variant that sets the page count outside the full-chapter branch.
_calculate_statistics_pages_always(chs) ==
    LET full_chapters == get_full_chapters(chs)
        acts == ActsStats(chs, 0, number_of_acts(chs))
        base == [total_chapters |-> Len(full_chapters),
                 total_words |-> total_word_count(chs),
                 number_of_acts |-> number_of_acts(chs),
                 acts_stats |-> acts,
                 total_comments |->
                     SumSeq([a \in 1..Len(acts) |-> acts[a].comments]),
                 total_todos |->
                     SumSeq([a \in 1..Len(acts) |-> acts[a].todos]),
                 pages |-> TrueDiv(total_word_count(chs), WordsPerPage)]
    IN  IF full_chapters # <<>>
        THEN base @@ AdditionalStatistics(chs, base.total_words)
        ELSE base

_calculate_statistics(chs) ==
    LET full_chapters == get_full_chapters(chs)
        acts == ActsStats(chs, 0, number_of_acts(chs))
        base == [total_chapters |-> Len(full_chapters),
                 total_words |-> total_word_count(chs),
                 number_of_acts |-> number_of_acts(chs),
                 acts_stats |-> acts,
                 total_comments |->
                     SumSeq([a \in 1..Len(acts) |-> acts[a].comments]),
                 total_todos |->
                     SumSeq([a \in 1..Len(acts) |-> acts[a].todos])]
    IN  IF full_chapters # <<>>
        THEN base @@ AdditionalStatistics(chs, base.total_words)
        ELSE base

----------------------------------------------------------------------------
\* StatisticsService._write_statistics: the lines written, each a tuple of
\* the line's label and the values formatted into it.

\* f"{x:.2f}" of a non-negative quotient: the nearest hundredth (half to
\* even), as a number of hundredths.
Format2f(q) ==
    LET n == 100 * q.num
        h == n \div q.den
        r == 2 * (n % q.den)
    IN  IF r < q.den THEN h
        ELSE IF r > q.den THEN h + 1
        ELSE IF h % 2 = 0 THEN h ELSE h + 1

\* A variant that writes a part's comment line before its TODO line.
ActLinesCommentsFirst(act_stat) ==
    <<  <<"Part", act_stat.part, act_stat.num_chapters, act_stat.words>>,
        <<"Part Average Chapter Length", Format2f(act_stat.avg_chapter_length)>> >>
    \o (IF act_stat.comments > 0
        THEN << <<"Comments in Part", act_stat.part, act_stat.comments>> >>
        ELSE <<>>)
    \o (IF act_stat.todos > 0
        THEN << <<"TODOs in Part", act_stat.part, act_stat.todos>> >>
        ELSE <<>>)

ActLines(act_stat) ==
    <<  <<"Part", act_stat.part, act_stat.num_chapters, act_stat.words>>,
        <<"Part Average Chapter Length", Format2f(act_stat.avg_chapter_length)>> >>
    \o (IF act_stat.todos > 0
        THEN << <<"TODOs in Part", act_stat.part, act_stat.todos>> >>
        ELSE <<>>)
    \o (IF act_stat.comments > 0
        THEN << <<"Comments in Part", act_stat.part, act_stat.comments>> >>
        ELSE <<>>)

RECURSIVE AllActLines(_)
AllActLines(acts) ==
    IF acts = <<>> THEN <<>>
    ELSE ActLines(Head(acts)) \o AllActLines(Tail(acts))

_write_statistics(st) ==
    <<  <<"Statistics">>,
        <<"Total Chapters", st.total_chapters>>,
        <<"Total Words", st.total_words>>,
        <<"Number of acts", st.number_of_acts>> >>
    \o AllActLines(st.acts_stats)
    \o (IF "pages" \in DOMAIN st
        THEN << <<"Pages", Format2f(st.pages), WordsPerPage>> >> ELSE <<>>)
    \o (IF "avg_chapter_length" \in DOMAIN st
        THEN << <<"Average Chapter Length", Format2f(st.avg_chapter_length)>> >>
        ELSE <<>>)
    \o (IF "shortest_chapter" \in DOMAIN st
        THEN << <<"Shortest Chapter", st.shortest_chapter.number,
                  st.shortest_chapter.length>> >>
        ELSE <<>>)
    \o (IF "longest_chapter" \in DOMAIN st
        THEN << <<"Longest Chapter", st.longest_chapter.number,
                  st.longest_chapter.length>> >>
        ELSE <<>>)

----------------------------------------------------------------------------
\* The progress CSV file and pandas.
\*
\* The file is [exists, header, lines]: header is the first line's column
\* names (<<>> for a file of zero bytes) and each further line a sequence of
\* cells, a cell being the sequence of its characters.  A DataFrame is
\* [columns, rows], a row holding one value per column: [t |-> "int", v |-> n],
\* [t |-> "str", v |-> cell] or [t |-> "ts", v |-> clock].

NoFile == [exists |-> FALSE, header |-> <<>>, lines |-> <<>>]

ProgressColumns ==
    <<"Date and time", "Total Chapters", "Total Words", "Pages",
      "Average Chapter Length", "Comments", "Todo">>

DigitChars == <<"0", "1", "2", "3", "4", "5", "6", "7", "8", "9">>

\* str(n) for n >= 0.
RECURSIVE FormatInt(_)
FormatInt(n) ==
    IF n < 10 THEN <<DigitChars[n + 1]>>
    ELSE FormatInt(n \div 10) \o <<DigitChars[(n % 10) + 1]>>

\* str(pd.Timestamp): date and time with separators, never a number.
FormatTimestamp(t) == <<"T">> \o FormatInt(t)

IsDigits(cell) ==
    /\ cell # <<>>
    /\ \A i \in 1..Len(cell) : \E d \in 1..10 : DigitChars[d] = cell[i]

DigitValue(c) == (CHOOSE d \in 1..10 : DigitChars[d] = c) - 1

RECURSIVE ParseInt(_)
ParseInt(cell) ==
    IF Len(cell) = 1 THEN DigitValue(cell[1])
    ELSE 10 * ParseInt(SubSeq(cell, 1, Len(cell) - 1))
         + DigitValue(cell[Len(cell)])

IntValue(n) == [t |-> "int", v |-> n]

\* DataFrame.to_csv(index=False) of one value.
FormatValue(x) ==
    IF x.t = "int" THEN FormatInt(x.v)
    ELSE IF x.t = "ts" THEN FormatTimestamp(x.v)
    ELSE x.v

to_csv(df) ==
    [exists |-> TRUE,
     header |-> df.columns,
     lines |-> [i \in 1..Len(df.rows) |->
                   [c \in 1..Len(df.rows[i]) |-> FormatValue(df.rows[i][c])]]]

\* pd.read_csv's type of a column: int64 when every cell is a number, else
\* object, the cells kept as strings.
ColumnIsInt(lines, c) == \A i \in 1..Len(lines) : IsDigits(lines[i][c])

\* pd.read_csv: [raised, df].  The first line after the header has as many
\* cells as the header, and no line has fewer; a line with more cells than
\* that is a ParserError.
read_csv(file) ==
    IF file.header = <<>>
    THEN [raised |-> "EmptyDataError", df |-> <<>>]
    ELSE IF \E i \in 1..Len(file.lines) : Len(file.lines[i]) > Len(file.header)
    THEN [raised |-> "ParserError", df |-> <<>>]
    ELSE [raised |-> "none",
          df |-> [columns |-> file.header,
                  rows |-> [i \in 1..Len(file.lines) |->
                      [c \in 1..Len(file.header) |->
                          IF ColumnIsInt(file.lines, c)
                          THEN IntValue(ParseInt(file.lines[i][c]))
                          ELSE [t |-> "str", v |-> file.lines[i][c]]]]]]

\* A faulty concat: the frames in the other order.
pd_concat_reversed(a, b) == [columns |-> a.columns, rows |-> b.rows \o a.rows]

\* pd.concat([a, b], ignore_index=True) of frames with the same columns.
pd_concat(a, b) == [columns |-> a.columns, rows |-> a.rows \o b.rows]

\* x != y of two values: values of different types differ.
PyNe(x, y) == x.t # y.t \/ x.v # y.v

HasColumn(df, name) == \E c \in 1..Len(df.columns) : df.columns[c] = name

ColumnIndex(df, name) == CHOOSE c \in 1..Len(df.columns) : df.columns[c] = name

\* A faulty last value: df[name].values[0].
FirstValue(df, name) == df.rows[1][ColumnIndex(df, name)]

\* df[name].values[-1]
LastValue(df, name) == df.rows[Len(df.rows)][ColumnIndex(df, name)]

----------------------------------------------------------------------------
\* StatisticsService._update_progress_csv.

\* stats.get(key, 0), then int().
\* A variant that rounds up where int() truncates.
StatsGetIntCeil(st, key) ==
    IF key \in DOMAIN st
    THEN (st[key].num + st[key].den - 1) \div st[key].den
    ELSE 0

StatsGetInt(st, key) == IF key \in DOMAIN st THEN PyInt(st[key]) ELSE 0

progress_data(st, clock) ==
    [columns |-> ProgressColumns,
     rows |-> << << [t |-> "ts", v |-> clock],
                    IntValue(st.total_chapters),
                    IntValue(st.total_words),
                    IntValue(StatsGetInt(st, "pages")),
                    IntValue(StatsGetInt(st, "avg_chapter_length")),
                    IntValue(st.total_comments),
                    IntValue(st.total_todos) >> >>]

\* A variant that writes the new snapshot alone.
save_new_rows_only(df_to_save, df_to_concat) == to_csv(df_to_save)

\* save(df_to_save, df_to_concat): the file written.
save(df_to_save, df_to_concat) == to_csv(pd_concat(df_to_concat, df_to_save))

\* A faulty comparison: the chapter count compared as well.
TotalWordsOrChaptersDiffer(df_existing, df) ==
    \/ PyNe(LastValue(df_existing, "Total Words"), LastValue(df, "Total Words"))
    \/ PyNe(LastValue(df_existing, "Total Chapters"),
            LastValue(df, "Total Chapters"))

\* The comparison of the last recorded row with the new one.
TotalWordsDiffer(df_existing, df) ==
    PyNe(LastValue(df_existing, "Total Words"), LastValue(df, "Total Words"))

\* The except branch: the warning, then save() without its two arguments.
FailedToReadLastRow(file) ==
    [ledger |-> file, out |-> << <<"Warning: Failed to read last row">> >>,
     raised |-> "TypeError"]

\* [ledger, out, raised]: the file afterwards, the lines printed, and the
\* exception the call ends with ("none": it returns).
_update_progress_csv(st, file, clock) ==
    LET df == progress_data(st, clock)
    IN  IF ~file.exists
        THEN [ledger |-> file, out |-> <<>>, raised |-> "none"]
        ELSE LET read == read_csv(file)
                 df_existing == read.df
             IN  IF read.raised # "none"
                 THEN [ledger |-> file, out |-> <<>>, raised |-> read.raised]
                 ELSE IF ~HasColumn(df_existing, "Total Words")
                 THEN FailedToReadLastRow(file)      \* KeyError
                 ELSE IF df_existing.rows = <<>>
                 THEN FailedToReadLastRow(file)      \* IndexError
                 ELSE IF TotalWordsDiffer(df_existing, df)
                 THEN [ledger |-> save(df, df_existing),
                       out |-> << <<"Saved progress">> >>,
                       raised |-> "none"]
                 ELSE [ledger |-> file,
                       out |-> << <<"Info: Total words unchanged">> >>,
                       raised |-> "none"]

----------------------------------------------------------------------------
\* The inputs.

\* The number given to the n-th chapter added: the loader's whole number n,
\* or the fragment number n - 0.5.
ChapterNumbers(n) == {10 * n, 10 * n - 5}

Parts == {0, 1, 3}

\* What a chapter's text gives: its words, its TODOs, its comment markers.
Texts ==
    {[chapter_length |-> 250, todos |-> 1, comments |-> 0],
     [chapter_length |-> 251, todos |-> 0, comments |-> 0],
     [chapter_length |-> 300, todos |-> 0, comments |-> 2]}

ChapterInputs(n) ==
    {[chapter |-> c, part |-> p, chapter_length |-> x.chapter_length,
      todos |-> x.todos, comments |-> x.comments] :
        c \in ChapterNumbers(n), p \in Parts, x \in Texts}

\* Any chapter number up to MaxChapterTenths tenths, with a length at, near
\* or far from the threshold.
ChapterLengths == {0, 249, 250, 251, 252, 1000}

AnyChapterInputs ==
    {[chapter |-> c, part |-> 0, chapter_length |-> w,
      todos |-> 0, comments |-> 0] :
        c \in 0..MaxChapterTenths, w \in ChapterLengths}

\* The chapters of the books whose progress is recorded: a full chapter and
\* a fragment of the same length.
LedgerChapterInputs ==
    {[chapter |-> 10, part |-> 0, chapter_length |-> 300,
      todos |-> 0, comments |-> 0],
     [chapter |-> 15, part |-> 1, chapter_length |-> 300,
      todos |-> 1, comments |-> 2]}

\* A line to_csv wrote at an earlier time for a book of total_words words.
OldLine(total_chapters, total_words) ==
    <<FormatTimestamp(0), FormatInt(total_chapters), FormatInt(total_words),
      FormatInt(total_words \div WordsPerPage), FormatInt(total_words),
      FormatInt(0), FormatInt(0)>>

\* The same with the Total Words cell not a number.
JunkLine == <<FormatTimestamp(0), <<"1">>, <<"x">>, <<"1">>, <<"1">>,
              <<"0">>, <<"0">> >>

File(header, lines) == [exists |-> TRUE, header |-> header, lines |-> lines]

\* The ledger a first run may find: absent; of zero bytes; a second line
\* longer than the header; a header without the Total Words column; a
\* header and no row; rows the program wrote; rows with a Total Words cell
\* that is not a number.
InitialLedgers ==
    {NoFile,
     File(<<>>, <<>>),
     File(ProgressColumns, <<OldLine(1, 251), OldLine(1, 600) \o <<<<"x">>>> >>),
     File(<<"Date and time", "Words">>, << <<FormatTimestamp(0), <<"3">>>> >>),
     File(ProgressColumns, <<>>),
     File(ProgressColumns, <<OldLine(1, 300)>>),
     File(ProgressColumns, <<OldLine(1, 251), OldLine(1, 600)>>),
     File(ProgressColumns, <<OldLine(1, 300), OldLine(0, 0)>>),
     File(ProgressColumns, <<JunkLine>>),
     File(ProgressColumns, <<JunkLine, OldLine(1, 300)>>)}

----------------------------------------------------------------------------
\* The operations.

\* ChapterCollection.add_chapter
add_chapter(ch) ==
    /\ pc = "loading"
    /\ chapters' = Append(chapters, ch)
    /\ UNCHANGED <<pc, stats, statsFile, console, ledger, now, raised, history>>
    /\ UNCHANGED <<chapterVars, runVars>>

LastTwo(s) == IF Len(s) > 2 THEN Tail(s) ELSE s

\* StatisticsService.generate_statistics: the report computed, written to
\* the statistics file and the console, and the ledger updated.
StatisticsService_generate_statistics(chapter_collection) ==
    /\ now < MaxRuns
    /\ LET st == _calculate_statistics(chapter_collection)
           lines == _write_statistics(st)
           update == _update_progress_csv(st, ledger, now + 1)
       IN  /\ stats' = st
           /\ statsFile' = lines
           /\ console' = console \o lines \o update.out
           /\ ledger' = update.ledger
           /\ raised' = update.raised
           /\ history' = LastTwo(Append(history,
                            [pre |-> ledger, stats |-> st,
                             post |-> update.ledger,
                             raised |-> update.raised]))
    /\ now' = now + 1

\* The call of it on the collection built by add_chapter.
generate_statistics ==
    /\ pc = "loading"
    /\ StatisticsService_generate_statistics(chapters)
    /\ pc' = "done"
    /\ UNCHANGED <<chapters, chapterVars, runVars>>

\* BookGenerator.__init__: the next run of the program, on the files the
\* last one left.
NewProcess ==
    /\ pc = "done"
    /\ chapters' = <<>>
    /\ pc' = "loading"
    /\ stats' = <<>>
    /\ console' = <<>>
    /\ raised' = "none"
    /\ UNCHANGED <<statsFile, ledger, now, history, chapterVars, runVars>>

LoadChapter ==
    \E ch \in ChapterInputs(Len(chapters) + 1) :
        /\ Len(chapters) < MaxChapters
        /\ add_chapter(ch)

LedgerLoadChapter ==
    \E ch \in LedgerChapterInputs :
        /\ Len(chapters) < MaxLedgerChapters
        /\ add_chapter(ch)

NoProbe ==
    [reads |-> 0, computes |-> 0, accesses |-> 0, stale |-> 0,
     texts |-> {}, lengths |-> {}, comments |-> <<>>]

\* No Chapter object under observation.
InitChapter ==
    /\ mdFile = [exists |-> FALSE, readable |-> FALSE, text |-> <<>>]
    /\ _text = <<>>
    /\ _word_count = <<>>
    /\ probe = NoProbe

\* run is not called.
InitRun ==
    /\ chapter_titles = <<>>
    /\ mdFiles = <<>>
    /\ outdir = {}
    /\ trace = <<>>
    /\ result = <<>>

InitStatistics ==
    /\ chapters = <<>>
    /\ pc = "loading"
    /\ stats = <<>>
    /\ statsFile = <<>>
    /\ console = <<>>
    /\ now = 0
    /\ raised = "none"
    /\ history = <<>>

InitProcess == InitStatistics /\ InitChapter /\ InitRun

\* One run of the program on a book, no ledger on disk.
Init == InitProcess /\ ledger = NoFile

Next == LoadChapter \/ generate_statistics

Spec == Init /\ [][Next]_vars

\* One run on a book of a single chapter of any number.
LoadAnyChapter ==
    \E ch \in AnyChapterInputs :
        /\ chapters = <<>>
        /\ add_chapter(ch)

NextChapter == LoadAnyChapter \/ generate_statistics

SpecChapter == Init /\ [][NextChapter]_vars

\* Runs of the program one after the other on the same ledger.
InitLedger == InitProcess /\ ledger \in InitialLedgers

NextLedger == NewProcess \/ LedgerLoadChapter \/ generate_statistics

SpecLedger == InitLedger /\ [][NextLedger]_vars

----------------------------------------------------------------------------
\* One Chapter object and its Markdown file (src/core/chapter.py).  A text
\* is a sequence of characters; "w" stands for any letter that is not a
\* letter of TODO.

Chars == {"%", "w", " ", "\n"}

WhiteSpace == {" ", "\n"}

Strings(n) == UNION {[1..k -> Chars] : k \in 0..n}

\* len(s.split()): the number of maximal runs of non-white-space.
SplitLen(s) ==
    Cardinality({i \in 1..Len(s) :
                    /\ s[i] \notin WhiteSpace
                    /\ (i = 1 \/ s[i - 1] \in WhiteSpace)})

\* len(re.findall(r'%%', s, re.MULTILINE)): the matches found from left to
\* right, each search starting where the last match ended.
RECURSIVE FindAllMarkers(_)
FindAllMarkers(s) ==
    IF Len(s) < 2 THEN 0
    ELSE IF s[1] = "%" /\ s[2] = "%"
         THEN 1 + FindAllMarkers(SubSeq(s, 3, Len(s)))
         ELSE FindAllMarkers(Tail(s))

\* Chapter._load_text
_load_text(file) ==
    IF ~file.exists THEN <<>>
    ELSE IF ~file.readable THEN <<>>
    ELSE file.text

\* A variant of the text property that tests `not self._text`.
text_unless_empty(cached, file) ==
    IF cached = <<>> \/ cached = << <<>> >>
    THEN [cache |-> <<_load_text(file)>>, loads |-> 1]
    ELSE [cache |-> cached, loads |-> 0]

\* Chapter.text: the cache after the access, and the loads it made.
text(cached, file) ==
    IF cached = <<>>
    THEN [cache |-> <<_load_text(file)>>, loads |-> 1]
    ELSE [cache |-> cached, loads |-> 0]

\* 1 if the access finds a cached text that the file no longer holds.
Stale == IF _text # <<>> /\ _load_text(mdFile) # _text[1] THEN 1 ELSE 0

\* The access to the text property.
get_text ==
    /\ probe.accesses < MaxAccesses
    /\ LET t == text(_text, mdFile)
       IN  /\ _text' = t.cache
           /\ probe' = [probe EXCEPT !.accesses = @ + 1, !.stale = @ + Stale,
                                     !.reads = @ + t.loads,
                                     !.texts = @ \cup {t.cache[1]}]
    /\ UNCHANGED <<mdFile, _word_count, statisticsVars, runVars>>

\* The access to the chapter_length property.
get_chapter_length ==
    /\ probe.accesses < MaxAccesses
    /\ IF _word_count = <<>>
       THEN LET t == text(_text, mdFile)
            IN  /\ _text' = t.cache
                /\ _word_count' = <<SplitLen(t.cache[1])>>
                /\ probe' = [probe EXCEPT !.accesses = @ + 1, !.stale = @ + Stale,
                                          !.reads = @ + t.loads,
                                          !.computes = @ + 1,
                                          !.lengths =
                                              @ \cup {SplitLen(t.cache[1])}]
       ELSE /\ probe' = [probe EXCEPT !.accesses = @ + 1, !.stale = @ + Stale,
                                      !.lengths = @ \cup {_word_count[1]}]
            /\ UNCHANGED <<_text, _word_count>>
    /\ UNCHANGED <<mdFile, statisticsVars, runVars>>

\* Chapter.count_comments
call_count_comments ==
    /\ probe.accesses < MaxAccesses
    /\ LET t == text(_text, mdFile)
       IN  /\ _text' = t.cache
           /\ probe' = [probe EXCEPT !.accesses = @ + 1, !.stale = @ + Stale,
                                     !.reads = @ + t.loads,
                                     !.comments = <<FindAllMarkers(t.cache[1])>>]
    /\ UNCHANGED <<mdFile, _word_count, statisticsVars, runVars>>

\* The author's editor, at any time: the file written or deleted.
EditedTexts == {<<"w">>, <<"w", " ", "w", "\n">>}

WriteFile ==
    \E t \in EditedTexts :
        /\ mdFile' = [exists |-> TRUE, readable |-> TRUE, text |-> t]
        /\ UNCHANGED <<_text, _word_count, probe, statisticsVars, runVars>>

DeleteFile ==
    /\ mdFile.exists
    /\ mdFile' = [exists |-> FALSE, readable |-> FALSE, text |-> <<>>]
    /\ UNCHANGED <<_text, _word_count, probe, statisticsVars, runVars>>

InitialFiles ==
    {[exists |-> FALSE, readable |-> FALSE, text |-> <<>>],
     [exists |-> TRUE, readable |-> FALSE, text |-> <<"w">>]}
    \cup {[exists |-> TRUE, readable |-> TRUE, text |-> t] :
              t \in Strings(MaxTextLen)}

\* A Chapter just constructed, on any file or none.
InitText ==
    /\ InitStatistics /\ ledger = NoFile /\ InitRun
    /\ mdFile \in InitialFiles
    /\ _text = <<>>
    /\ _word_count = <<>>
    /\ probe = NoProbe

NextText ==
    \/ get_text \/ get_chapter_length \/ call_count_comments
    \/ WriteFile \/ DeleteFile

SpecText == InitText /\ [][NextText]_vars

----------------------------------------------------------------------------
\* BookGenerator.run and its steps (src/BookBuilder.py).  A title is a
\* sequence of characters.

part_divider_key == <<"P", "a", "r", "t">>

\* Python's `needle in hay` on strings.
Contains(needle, hay) ==
    \E i \in 1..(Len(hay) - Len(needle) + 1) :
        SubSeq(hay, i, i + Len(needle) - 1) = needle

\* A variant that numbers the chapters by len(chapters), from 0.
ChapterNumberedFromZero(chapter, title, part) ==
    [chapter |-> 10 * (chapter - 1), title |-> title, part |-> part]

\* The Chapter made for a title: its text is not read yet.
Chapter(chapter, title, part) ==
    [chapter |-> 10 * chapter, title |-> title, part |-> part]

\* A variant of the loop that counts the divider after making the chapter.
RECURSIVE LoadLoopCountingAfter(_, _, _)
LoadLoopCountingAfter(titles, collection, current_act) ==
    IF titles = <<>> THEN collection
    ELSE LET title == Head(titles)
             act == IF Contains(part_divider_key, title)
                    THEN current_act + 1 ELSE current_act
         IN  LoadLoopCountingAfter(Tail(titles),
                 Append(collection,
                        Chapter(Len(collection) + 1, title, current_act)),
                 act)

\* The loop of load_chapters over the titles left.
RECURSIVE LoadLoop(_, _, _)
LoadLoop(titles, collection, current_act) ==
    IF titles = <<>> THEN collection
    ELSE LET title == Head(titles)
             act == IF Contains(part_divider_key, title)
                    THEN current_act + 1 ELSE current_act
         IN  LoadLoop(Tail(titles),
                 Append(collection, Chapter(Len(collection) + 1, title, act)),
                 act)

\* len(re.findall(r'\bTODO\b', s, re.IGNORECASE))
WordChars == {"w", "T", "O", "D", "t", "o", "d"}

TodoWords ==
    {w \in [1..4 -> {"T", "O", "D", "t", "o", "d"}] :
        /\ w[1] \in {"T", "t"} /\ w[2] \in {"O", "o"}
        /\ w[3] \in {"D", "d"} /\ w[4] \in {"O", "o"}}

FindAllTodos(s) ==
    Cardinality({i \in 1..(Len(s) - 3) :
                    /\ SubSeq(s, i, i + 3) \in TodoWords
                    /\ (i = 1 \/ s[i - 1] \notin WordChars)
                    /\ (i + 3 = Len(s) \/ s[i + 4] \notin WordChars)})

\* The Chapter after its text, word count and marks have been read.
Loaded(ch, files) ==
    LET t == _load_text(files[ch.title])
    IN  [chapter |-> ch.chapter, title |-> ch.title, part |-> ch.part,
         chapter_length |-> SplitLen(t),
         todos |-> FindAllTodos(t),
         comments |-> FindAllMarkers(t)]

\* PandocService.convert_to_latex: the exception raised, or "none".
convert_to_latex(file, pandoc_ok) ==
    IF ~file.exists THEN "FileNotFoundError"
    ELSE IF ~pandoc_ok THEN "PandocError"
    ELSE "none"

\* The files of the output directory.
TmpTex(i) == [kind |-> "tmp", index |-> i]

MainTex == [kind |-> "main", index |-> 0]

Pdf == [kind |-> "pdf", index |-> 0]

Aux == [kind |-> "aux", index |-> 0]

Log == [kind |-> "log", index |-> 0]

\* LaTeXService.cleanup_files with keep_main_tex and not keep_log_on_success
cleanup_files(dir) == {f \in dir : f.kind \notin {"aux", "log", "tmp"}}

Step(name, error) == [step |-> name, error |-> error]

\* A variant of run that goes on after a step has failed.
ProceedAlways(name, error, next) ==
    /\ trace' = Append(trace, Step(name, error))
    /\ pc' = next
    /\ result' = <<>>

\* run after a step: on to the next one, or return 1 if the step failed.
Proceed(name, error, next) ==
    /\ trace' = Append(trace, Step(name, error))
    /\ pc' = IF error = "none" THEN next ELSE "returned"
    /\ result' = IF error = "none" THEN <<>> ELSE <<1>>

\* BookGenerator.check_dependencies
check_dependencies ==
    /\ pc = "start"
    /\ \E pandoc_available, latex_available \in BOOLEAN :
           Proceed("check_dependencies",
                   IF ~pandoc_available THEN "pandoc not found"
                   ELSE IF ~latex_available THEN "pdflatex not found"
                   ELSE "none",
                   "checked")
    /\ UNCHANGED <<chapters, stats, statsFile, console, ledger, now, raised,
                   history, chapterVars, chapter_titles, mdFiles, outdir>>

\* ensure_directory(self.config.output_dir)
ensure_directory ==
    /\ pc = "checked"
    /\ \E error \in {"none", "OSError"} :
           Proceed("ensure_directory", error, "ready")
    /\ UNCHANGED <<chapters, stats, statsFile, console, ledger, now, raised,
                   history, chapterVars, chapter_titles, mdFiles, outdir>>

\* BookGenerator.load_chapters
load_chapters ==
    /\ pc = "ready"
    /\ chapters' = LoadLoop(chapter_titles, chapters, 0)
    /\ Proceed("load_chapters", "none", "loaded")
    /\ UNCHANGED <<stats, statsFile, console, ledger, now, raised,
                   history, chapterVars, chapter_titles, mdFiles, outdir>>

\* BookGenerator.convert_chapters_to_tex: pandoc fails on no chapter
\* (first_pandoc_error = 0) or first on the chapter of that index; the
\* chapters before the first failure are converted.
convert_chapters_to_tex ==
    /\ pc = "loaded"
    /\ \E first_pandoc_error \in 0..Len(chapters) :
           LET error(i) == convert_to_latex(mdFiles[chapters[i].title],
                                            i # first_pandoc_error)
               failed == {i \in 1..Len(chapters) : error(i) # "none"}
               first == IF failed = {} THEN Len(chapters) + 1
                        ELSE CHOOSE i \in failed : \A j \in failed : i <= j
           IN  /\ outdir' = outdir \cup {TmpTex(i - 1) : i \in 1..(first - 1)}
               /\ Proceed("convert_chapters_to_tex",
                          IF failed = {} THEN "none" ELSE error(first),
                          "converted")
    /\ UNCHANGED <<chapters, stats, statsFile, console, ledger, now, raised,
                   history, chapterVars, chapter_titles, mdFiles>>

\* BookGenerator.generate_main_tex
generate_main_tex ==
    /\ pc = "converted"
    /\ \E error \in {"none", "IOError"} :
           /\ outdir' = IF error = "none" THEN outdir \cup {MainTex} ELSE outdir
           /\ Proceed("generate_main_tex", error, "assembled")
    /\ UNCHANGED <<chapters, stats, statsFile, console, ledger, now, raised,
                   history, chapterVars, chapter_titles, mdFiles>>

\* BookGenerator.compile_and_clean: compile_pdf, and cleanup_files if it
\* did not raise.
compile_and_clean ==
    /\ pc = "assembled"
    /\ \E error \in {"none", "LaTeXError"} :
           IF error = "none"
           THEN /\ outdir' = cleanup_files(outdir \cup {Aux, Log, Pdf})
                /\ trace' = trace \o <<Step("compile_pdf", "none"),
                                        Step("cleanup_files", "none")>>
                /\ pc' = "compiled"
                /\ result' = <<>>
           ELSE /\ outdir' = outdir \cup {Aux, Log}
                /\ Proceed("compile_pdf", error, "compiled")
    /\ UNCHANGED <<chapters, stats, statsFile, console, ledger, now, raised,
                   history, chapterVars, chapter_titles, mdFiles>>

\* BookGenerator.generate_statistics and the return of run: the statistics
\* file can be opened for writing or not.
BookGenerator_generate_statistics ==
    /\ pc = "compiled"
    /\ LET chs == [i \in 1..Len(chapters) |-> Loaded(chapters[i], mdFiles)]
       IN  /\ chapters' = chs
           /\ \E writable \in BOOLEAN :
                  IF writable
                  THEN StatisticsService_generate_statistics(chs)
                  ELSE /\ stats' = _calculate_statistics(chs)
                       /\ raised' = "OSError"
                       /\ UNCHANGED <<statsFile, console, ledger, now, history>>
    /\ trace' = Append(trace, Step("generate_statistics", raised'))
    /\ pc' = "returned"
    /\ result' = IF raised' = "none" THEN <<0>> ELSE <<1>>
    /\ UNCHANGED <<chapterVars, chapter_titles, mdFiles, outdir>>

\* The inputs of a run.
Titles ==
    {<<"P", "a", "r", "t">>, <<"x", "P", "a", "r", "t", "x">>,
     <<"P", "a", "r">>, <<"p", "a", "r", "t">>, <<"x">>}

RunTitles == {<<"P", "a", "r", "t">>, <<"x">>}

TitleLists(T) == UNION {[1..n -> T] : n \in 0..MaxTitles}

RunTexts == {<<"w">>, <<"T", "O", "D", "O", " ", "%", "%">>}

RunFiles ==
    {[exists |-> FALSE, readable |-> FALSE, text |-> <<>>]}
    \cup {[exists |-> TRUE, readable |-> TRUE, text |-> t] : t \in RunTexts}

RunLedgers ==
    {NoFile, File(ProgressColumns, <<>>),
     File(ProgressColumns, <<OldLine(1, 300)>>)}

\* BookGenerator() constructed, run not yet called.
InitGenerator ==
    /\ chapters = <<>>
    /\ pc = "start"
    /\ stats = <<>>
    /\ statsFile = <<>>
    /\ console = <<>>
    /\ now = 0
    /\ raised = "none"
    /\ history = <<>>
    /\ InitChapter
    /\ outdir = {}
    /\ trace = <<>>
    /\ result = <<>>

\* The start of run up to the loaded collection, on any titles.
InitLoad ==
    /\ InitGenerator
    /\ ledger = NoFile
    /\ chapter_titles \in TitleLists(Titles)
    /\ mdFiles = [t \in Titles |->
                     [exists |-> FALSE, readable |-> FALSE, text |-> <<>>]]

NextLoad == check_dependencies \/ ensure_directory \/ load_chapters

SpecLoad == InitLoad /\ [][NextLoad]_vars

\* One call of run.
InitRunning ==
    /\ InitGenerator
    /\ ledger \in RunLedgers
    /\ chapter_titles \in TitleLists(RunTitles)
    /\ mdFiles \in [RunTitles -> RunFiles]

NextRun ==
    \/ check_dependencies \/ ensure_directory \/ load_chapters
    \/ convert_chapters_to_tex \/ generate_main_tex \/ compile_and_clean
    \/ BookGenerator_generate_statistics

SpecRun == InitRunning /\ [][NextRun]_vars

----------------------------------------------------------------------------
\* The ledger claims (SpecLedger).  They read the file's text, not the
\* DataFrame the program makes of it.

\* The last ledger update, and the one before it.
Updated == Len(history) >= 1

LastUpdate == history[Len(history)]

UpdatedTwice == Len(history) = 2

FirstOfTwo == history[1]

TotalWordsColumn == 3

\* A header and rows as the program writes them, whatever the cells hold.
HasRows(file) ==
    /\ file.exists
    /\ file.header = ProgressColumns
    /\ Len(file.lines) >= 1
    /\ \A i \in 1..Len(file.lines) : Len(file.lines[i]) = Len(ProgressColumns)

\* A readable ledger: rows whose number cells all are numbers.
WellFormed(file) ==
    /\ HasRows(file)
    /\ \A i \in 1..Len(file.lines) :
           \A c \in 2..Len(ProgressColumns) : IsDigits(file.lines[i][c])

LastTotalWordsCell(file) == file.lines[Len(file.lines)][TotalWordsColumn]

\* The line of the snapshot of report st taken at time clock.
SnapshotLine(st, clock) == to_csv(progress_data(st, clock)).lines[1]

\* C1: from a readable ledger of at least one row whose last row's
\* totalWords differs from the report's, two updates in a row with the
\* same totalWords leave exactly one row more than there was, not two.
C1_LedgerIdempotent ==
    (/\ UpdatedTwice
     /\ WellFormed(FirstOfTwo.pre)
     /\ ParseInt(LastTotalWordsCell(FirstOfTwo.pre)) # FirstOfTwo.stats.total_words
     /\ LastUpdate.stats.total_words = FirstOfTwo.stats.total_words)
    => /\ LastUpdate.pre = FirstOfTwo.post
       /\ ledger = LastUpdate.post
       /\ Len(ledger.lines) = Len(FirstOfTwo.pre.lines) + 1

\* Two updates in a row with the same totalWords, the first one appending.
C1_Witness ==
    /\ UpdatedTwice
    /\ WellFormed(FirstOfTwo.pre)
    /\ ParseInt(LastTotalWordsCell(FirstOfTwo.pre)) # FirstOfTwo.stats.total_words
    /\ LastUpdate.stats.total_words = FirstOfTwo.stats.total_words
    /\ Len(FirstOfTwo.post.lines) = Len(FirstOfTwo.pre.lines) + 1
    /\ LastUpdate.post = LastUpdate.pre

\* C2: when the ledger has rows r1..rn and the report's totalWords differs
\* from rn's, the ledger afterwards is r1..rn, unchanged and in order,
\* followed by the new snapshot.
C2_AppendKeepsRows ==
    (/\ Updated
     /\ HasRows(LastUpdate.pre)
     /\ LastTotalWordsCell(LastUpdate.pre) # FormatInt(LastUpdate.stats.total_words))
    => /\ LastUpdate.raised = "none"
       /\ ledger.exists
       /\ ledger.header = LastUpdate.pre.header
       /\ ledger.lines = LastUpdate.pre.lines \o <<SnapshotLine(LastUpdate.stats, now)>>

\* A snapshot appended to a ledger of two rows.
C2_Witness ==
    /\ Updated
    /\ HasRows(LastUpdate.pre)
    /\ Len(LastUpdate.pre.lines) >= 2
    /\ LastUpdate.pre.lines[1] # LastUpdate.pre.lines[2]
    /\ LastTotalWordsCell(LastUpdate.pre) # FormatInt(LastUpdate.stats.total_words)
    /\ Len(ledger.lines) = Len(LastUpdate.pre.lines) + 1

\* C3: when there is no ledger file, the update writes a ledger of exactly
\* one row, the snapshot.
C3_FirstRunCreatesLedger ==
    (Updated /\ ~LastUpdate.pre.exists)
    => /\ ledger.exists
       /\ ledger.header = ProgressColumns
       /\ ledger.lines = <<SnapshotLine(LastUpdate.stats, now)>>

\* The file cannot be read, or the comparison with its last row fails.
Malformed(file) ==
    /\ file.exists
    /\ \/ read_csv(file).raised # "none"
       \/ ~HasColumn(read_csv(file).df, "Total Words")
       \/ read_csv(file).df.rows = <<>>

\* C4: when the ledger file is malformed or unreadable the update does not
\* raise: it warns and still writes the new snapshot.
C4_MalformedStillWrites ==
    (Updated /\ Malformed(LastUpdate.pre))
    => /\ LastUpdate.raised = "none"
       /\ \E i \in 1..Len(console) : console[i] = <<"Warning: Failed to read last row">>
       /\ ledger.exists
       /\ Len(ledger.lines) >= 1
       /\ ledger.lines[Len(ledger.lines)] = SnapshotLine(LastUpdate.stats, now)

----------------------------------------------------------------------------
\* The collection and report claims (Spec; SpecChapter for C6).  They are
\* stated on the chapters' fields, with the sums and counts taken over
\* chapter indices.

Indices == 1..Len(chapters)

\* A whole chapter number and more than 250 words.
IsFull(ch) == ch.chapter % 10 = 0 /\ ch.chapter_length > 250

FullIndices == {i \in Indices : IsFull(chapters[i])}

IndicesOfPart(p) == {i \in Indices : chapters[i].part = p}

RECURSIVE SumOfIndices(_, _)
SumOfIndices(I, field) ==
    IF I = {} THEN 0
    ELSE LET i == CHOOSE k \in I : TRUE
         IN  chapters[i][field] + SumOfIndices(I \ {i}, field)

\* The greatest part of the collection, 0 when it is empty.
GreatestPart ==
    IF Indices = {} THEN 0
    ELSE CHOOSE m \in {chapters[i].part : i \in Indices} :
             \A i \in Indices : chapters[i].part <= m

Reported == pc = "done"

\* C6: is_full_chapter() is true iff the chapter number has no fractional
\* part and the word count is strictly greater than 250.
C6_FullChapterIff ==
    \A i \in Indices :
        is_full_chapter(chapters[i])
            <=> (chapters[i].chapter % 10 = 0 /\ chapters[i].chapter_length > 250)

\* A report over chapter 4 of exactly 250 words: no full chapter.
C6_Witness ==
    /\ Reported
    /\ Len(chapters) = 1
    /\ chapters[1].chapter = 40
    /\ chapters[1].chapter_length = 250
    /\ stats.total_chapters = 0

\* C7: after any add_chapter calls number_of_acts() is the greatest part of
\* the chapters in the collection, and 0 for the empty collection.
C7_ActCountIsMaxPart ==
    /\ number_of_acts(chapters) = GreatestPart
    /\ Reported => stats.number_of_acts = GreatestPart

\* Parts 0, 0, 3: two distinct parts, act count 3.
C7_Witness ==
    /\ Reported
    /\ Len(chapters) = 3
    /\ chapters[1].part = 0 /\ chapters[2].part = 0 /\ chapters[3].part = 3
    /\ stats.number_of_acts = 3

\* C8: get_shortest_chapter() and get_longest_chapter() return None when
\* there is no full chapter, and otherwise a full chapter of the collection
\* whose word count is the least (the greatest) over the full chapters.
C8_ShortestLongestOverFull ==
    LET shortest == get_shortest_chapter(chapters)
        longest == get_longest_chapter(chapters)
    IN  /\ FullIndices = {} => (shortest = <<>> /\ longest = <<>>)
        /\ FullIndices # {} =>
              /\ Len(shortest) = 1
              /\ \E i \in FullIndices : chapters[i] = shortest[1]
              /\ \A j \in FullIndices :
                     shortest[1].chapter_length <= chapters[j].chapter_length
              /\ Len(longest) = 1
              /\ \E i \in FullIndices : chapters[i] = longest[1]
              /\ \A j \in FullIndices :
                     longest[1].chapter_length >= chapters[j].chapter_length

\* Two full chapters of different lengths and a fragment shorter than both:
\* the report names the full ones.
C8_Witness ==
    /\ Reported
    /\ \E i, j \in FullIndices, k \in Indices \ FullIndices :
           /\ chapters[k].chapter_length < chapters[i].chapter_length
           /\ chapters[i].chapter_length < chapters[j].chapter_length
           /\ stats.shortest_chapter.length = chapters[i].chapter_length
           /\ stats.longest_chapter.length = chapters[j].chapter_length

\* C9: the report's totalWords, totalTodos and totalComments are sums over
\* all chapters, and each part's chapter count counts all chapters of the
\* part; only totalChapters counts the full chapters alone.
C9_TotalsOverAllChapters ==
    Reported =>
        /\ stats.total_words = SumOfIndices(Indices, "chapter_length")
        /\ stats.total_todos = SumOfIndices(Indices, "todos")
        /\ stats.total_comments = SumOfIndices(Indices, "comments")
        /\ \A a \in 1..Len(stats.acts_stats) :
               stats.acts_stats[a].num_chapters
                   = Cardinality(IndicesOfPart(stats.acts_stats[a].part))
        /\ stats.total_chapters = Cardinality(FullIndices)

\* A report over a full chapter and fragments that carry words, a TODO and
\* comments.
C9_Witness ==
    /\ Reported
    /\ FullIndices # {}
    /\ \E i, j \in Indices \ FullIndices :
           /\ chapters[i].todos > 0
           /\ chapters[j].comments > 0
           /\ chapters[i].part = chapters[j].part
           /\ \E k \in FullIndices : chapters[k].part = chapters[i].part
    /\ stats.total_chapters < Len(chapters)
    /\ stats.total_todos > 0
    /\ stats.total_comments > 0

\* C10: the per-part records are the parts p of 0..actCount that have a
\* chapter, each once and in ascending order; each holds the number of
\* chapters of part p, the sum of their words, and words / chapters.
C10_PartRecords ==
    Reported =>
        LET acts == stats.acts_stats
        IN  /\ \A a, b \in 1..Len(acts) : a < b => acts[a].part < acts[b].part
            /\ {acts[a].part : a \in 1..Len(acts)}
                   = {p \in 0..stats.number_of_acts : IndicesOfPart(p) # {}}
            /\ \A a \in 1..Len(acts) :
                   LET I == IndicesOfPart(acts[a].part)
                   IN  /\ acts[a].num_chapters = Cardinality(I)
                       /\ acts[a].words = SumOfIndices(I, "chapter_length")
                       /\ acts[a].avg_chapter_length.num * acts[a].num_chapters
                              = acts[a].words * acts[a].avg_chapter_length.den

\* Parts 1 and 3 only: records for 1 and 3, none for 0 and 2; part 1 has
\* two chapters whose average is not a whole number.
C10_Witness ==
    /\ Reported
    /\ {chapters[i].part : i \in Indices} = {1, 3}
    /\ Len(stats.acts_stats) = 2
    /\ stats.acts_stats[1].part = 1
    /\ stats.acts_stats[1].num_chapters = 2
    /\ stats.acts_stats[1].avg_chapter_length.den = 2
    /\ stats.acts_stats[2].part = 3

WholeBookFields ==
    {"pages", "avg_chapter_length", "shortest_chapter", "longest_chapter"}

\* C11: the report holds the four whole-book fields (pages, average chapter
\* length, shortest, longest) iff the collection has a full chapter, all
\* four or none; the report of the empty collection has 0 chapters, 0 words,
\* 0 acts, no per-part record and none of the four.
C11_AggregatesIffFullChapter ==
    Reported =>
        /\ \A f \in WholeBookFields : f \in DOMAIN stats <=> FullIndices # {}
        /\ chapters = <<>> =>
              /\ stats.total_chapters = 0
              /\ stats.total_words = 0
              /\ stats.number_of_acts = 0
              /\ stats.acts_stats = <<>>
              /\ WholeBookFields \cap DOMAIN stats = {}

\* A report over fragments that carry words: no whole-book field.
C11_Witness ==
    /\ Reported
    /\ Len(chapters) = 2
    /\ FullIndices = {}
    /\ stats.total_words > 0
    /\ WholeBookFields \cap DOMAIN stats = {}

\* C12: with a full chapter in the collection, the report's average chapter
\* length is the sum of the full chapters' words divided by the number of
\* full chapters; the words of fragments do not enter it.
C12_AverageOverFullChapters ==
    (Reported /\ FullIndices # {}) =>
        stats.avg_chapter_length.num * Cardinality(FullIndices)
            = SumOfIndices(FullIndices, "chapter_length")
                  * stats.avg_chapter_length.den

\* The labels of the lines of a part's block, then of all the blocks.
PartLabels(act_stat) ==
    <<"Part", "Part Average Chapter Length">>
    \o (IF act_stat.todos # 0 THEN <<"TODOs in Part">> ELSE <<>>)
    \o (IF act_stat.comments # 0 THEN <<"Comments in Part">> ELSE <<>>)

RECURSIVE PartsLabels(_)
PartsLabels(acts) ==
    IF acts = <<>> THEN <<>>
    ELSE PartLabels(Head(acts)) \o PartsLabels(Tail(acts))

WholeBookLabels ==
    (IF "pages" \in DOMAIN stats THEN <<"Pages">> ELSE <<>>)
    \o (IF "avg_chapter_length" \in DOMAIN stats
        THEN <<"Average Chapter Length">> ELSE <<>>)
    \o (IF "shortest_chapter" \in DOMAIN stats
        THEN <<"Shortest Chapter">> ELSE <<>>)
    \o (IF "longest_chapter" \in DOMAIN stats
        THEN <<"Longest Chapter">> ELSE <<>>)

IsPartLine(line) == line[1] = "Part"

\* C19: the report's lines are, in this order: the title, total chapters,
\* total words, number of acts; for each per-part record in order its
\* count-and-words line, its average line, a TODO line iff its TODO count is
\* not 0 and a comment line iff its comment count is not 0; then pages,
\* average chapter length, shortest and longest chapter, each iff the report
\* has the field.  The console receives the same lines in the same order.
C19_ReportLineOrder ==
    Reported =>
        /\ [i \in 1..Len(statsFile) |-> statsFile[i][1]]
               = <<"Statistics", "Total Chapters", "Total Words",
                   "Number of acts">>
                 \o PartsLabels(stats.acts_stats) \o WholeBookLabels
        /\ statsFile[2][2] = stats.total_chapters
        /\ statsFile[3][2] = stats.total_words
        /\ statsFile[4][2] = stats.number_of_acts
        /\ LET part_lines == SelectSeq(statsFile, IsPartLine)
           IN  [a \in 1..Len(part_lines) |-> part_lines[a][2]]
                   = [a \in 1..Len(stats.acts_stats) |->
                          stats.acts_stats[a].part]
        /\ Len(console) >= Len(statsFile)
        /\ SubSeq(console, 1, Len(statsFile)) = statsFile

\* A report with a part that has TODOs and comments, a part that has
\* neither, and the whole-book lines.
C19_Witness ==
    /\ Reported
    /\ Len(stats.acts_stats) = 2
    /\ stats.acts_stats[1].todos > 0 /\ stats.acts_stats[1].comments > 0
    /\ stats.acts_stats[2].todos = 0 /\ stats.acts_stats[2].comments = 0
    /\ Len(statsFile) = 14
    /\ statsFile[7][1] = "TODOs in Part"
    /\ statsFile[8][1] = "Comments in Part"
    /\ statsFile[14][1] = "Longest Chapter"
    /\ console = statsFile

\* The last update wrote the ledger file.
WroteLedger == Updated /\ LastUpdate.post # LastUpdate.pre

\* The number in cell c of the ledger's last line.
LastCell(c) ==
    ParseInt(LastUpdate.post.lines[Len(LastUpdate.post.lines)][c])

\* C20: the snapshot written for a report holds the report's totalChapters
\* and totalWords, its total comments and TODOs, pages = totalWords /
\* wordsPerPage truncated to an integer and the report's average chapter
\* length truncated to an integer; pages and average are 0 when the report
\* has no such fields.
C20_SnapshotOfReport ==
    WroteLedger =>
        LET st == LastUpdate.stats
            line == LastUpdate.post.lines[Len(LastUpdate.post.lines)]
        IN  /\ Len(line) = 7
            /\ \A c \in 2..7 : IsDigits(line[c])
            /\ LastCell(2) = st.total_chapters
            /\ LastCell(3) = st.total_words
            /\ LastCell(4) = IF "pages" \in DOMAIN st
                             THEN st.total_words \div WordsPerPage ELSE 0
            /\ LastCell(5) = IF "avg_chapter_length" \in DOMAIN st
                             THEN st.avg_chapter_length.num
                                      \div st.avg_chapter_length.den
                             ELSE 0
            /\ LastCell(6) = st.total_comments
            /\ LastCell(7) = st.total_todos

\* A snapshot of 300 words in one full chapter (1.25 pages, written as 1)
\* appended to a ledger that had a row.
C20_Witness ==
    /\ WroteLedger
    /\ "pages" \in DOMAIN LastUpdate.stats
    /\ LastUpdate.stats.total_words = 300
    /\ LastUpdate.stats.pages = [num |-> 5, den |-> 4]
    /\ LastCell(4) = 1
    /\ LastCell(5) = 300
    /\ Len(LastUpdate.post.lines) = Len(LastUpdate.pre.lines) + 1
    /\ Len(LastUpdate.post.lines) >= 2

----------------------------------------------------------------------------
\* The claims on one Chapter's text (SpecText).

\* The number of the line that position i of text s is on.
LineOf(s, i) == Cardinality({j \in 1..(i - 1) : s[j] = "\n"})

\* The number of lines of s that contain the marker %%.
LinesWithMarker(s) ==
    Cardinality({LineOf(s, i) : i \in {k \in 1..(Len(s) - 1) :
                                          s[k] = "%" /\ s[k + 1] = "%"}})

\* C13: count_comments() returns the number of lines of the text that
\* contain %%; a line with several markers counts once.
C13_CommentsCountLines ==
    probe.comments # <<>> => probe.comments[1] = LinesWithMarker(_text[1])

\* C14: the file is read at most once and the word count computed at most
\* once; every access to the text returns the same text and every access to
\* chapter_length the same number, whatever happens to the file in between,
\* also when the first read found no file and cached the empty text;
\* chapter_length is the number of white-space-separated tokens of the
\* cached text.
C14_TextAndLengthCached ==
    /\ probe.reads <= 1
    /\ probe.computes <= 1
    /\ Cardinality(probe.texts) <= 1
    /\ Cardinality(probe.lengths) <= 1
    /\ _text # <<>> => probe.texts \subseteq {_text[1]}
    /\ _word_count # <<>> =>
          /\ _text # <<>>
          /\ _word_count[1] = SplitLen(_text[1])
          /\ probe.lengths = {_word_count[1]}

\* The first read found no file; the file was then created with two words,
\* and the text and the length were accessed again: still empty and 0.
C14_Witness ==
    /\ probe.accesses = 3
    /\ probe.stale = 2
    /\ probe.reads = 1
    /\ probe.computes = 1
    /\ probe.texts = {<<>>}
    /\ probe.lengths = {0}
    /\ mdFile.exists /\ mdFile.readable
    /\ SplitLen(mdFile.text) = 2

----------------------------------------------------------------------------
\* The claims on load_chapters (SpecLoad) and on run (SpecRun).

\* The titles among the first i that contain the part divider.
DividersUpTo(i) ==
    {j \in 1..i : Contains(part_divider_key, chapter_titles[j])}

\* C15: load_chapters adds one to the part counter before it creates the
\* chapter of a title that contains the divider: the part of the i-th
\* chapter is the number of titles among the first i, the i-th included,
\* that contain the divider.
C15_PartCountsDividers ==
    pc = "loaded" =>
        /\ Len(chapters) = Len(chapter_titles)
        /\ \A i \in 1..Len(chapters) :
               /\ chapters[i].title = chapter_titles[i]
               /\ chapters[i].part = Cardinality(DividersUpTo(i))

\* Titles x, Part, xPartx: parts 0, 1, 2.
C15_Witness ==
    /\ pc = "loaded"
    /\ chapter_titles = <<<<"x">>, <<"P", "a", "r", "t">>,
                          <<"x", "P", "a", "r", "t", "x">>>>
    /\ chapters[1].part = 0
    /\ chapters[2].part = 1
    /\ chapters[3].part = 2

\* The six steps of run, in their order.
RunOrder ==
    <<"check_dependencies", "load_chapters", "convert_chapters_to_tex",
      "generate_main_tex", "compile_pdf", "generate_statistics">>

IsRunStep(entry) == \E k \in 1..Len(RunOrder) : RunOrder[k] = entry.step

Failed(name) ==
    \E i \in 1..Len(trace) : trace[i].step = name /\ trace[i].error # "none"

Succeeded(name) == \E i \in 1..Len(trace) : trace[i] = Step(name, "none")

Executed(name) == \E i \in 1..Len(trace) : trace[i].step = name

\* C16: run executes the dependency check, the loading, the conversion,
\* the assembly, the compilation and the statistics in this order and stops
\* at the first step that fails, returning 1: no step runs after a failed
\* one; the statistics and the ledger update happen only after a successful
\* compilation; after a failed conversion there is no assembly, no
\* compilation and no statistics.  run returns 0 only after all six.
C16_FixedOrderFailFast ==
    LET steps == SelectSeq(trace, IsRunStep)
    IN  /\ Len(steps) <= Len(RunOrder)
        /\ \A i \in 1..Len(steps) : steps[i].step = RunOrder[i]
        /\ \A i \in 1..Len(trace) :
               trace[i].error # "none" => (i = Len(trace) /\ result = <<1>>)
        /\ result = <<1>> => trace[Len(trace)].error # "none"
        /\ result = <<0>> => Len(steps) = Len(RunOrder)
        /\ (Executed("generate_statistics") \/ stats # <<>>
               \/ statsFile # <<>> \/ history # <<>>)
              => Succeeded("compile_pdf")
        /\ Failed("convert_chapters_to_tex") =>
              /\ ~Executed("generate_main_tex")
              /\ ~Executed("compile_pdf")
              /\ ~Executed("generate_statistics")
              /\ MainTex \notin outdir /\ Pdf \notin outdir
              /\ stats = <<>> /\ history = <<>>

\* pandoc failed on the second of three chapters: the first is converted,
\* nothing else is done and run returned 1.
C16_Witness ==
    /\ result = <<1>>
    /\ Len(chapters) = 3
    /\ trace[Len(trace)] = Step("convert_chapters_to_tex", "PandocError")
    /\ outdir = {TmpTex(0)}
    /\ stats = <<>>

\* C17: when run returns 1, cleanup has not been performed in that run,
\* whichever step failed (conversion, assembly, compilation, statistics or
\* ledger writing): the temporary .tex files and the auxiliary and log
\* files have not been deleted.
C17_FailureKeepsIntermediates ==
    result = <<1>> =>
        /\ ~Executed("cleanup_files")
        /\ Executed("compile_pdf") => {Aux, Log} \subseteq outdir
        /\ Succeeded("convert_chapters_to_tex") =>
               \A i \in 1..Len(chapters) : TmpTex(i - 1) \in outdir

\* C18: a chapter whose source file is missing has empty text (0 words, not
\* a full chapter) and the run is not aborted because of the missing file.
C18_MissingFileRecoverable ==
    \A i \in 1..Len(chapters) :
        ~mdFiles[chapters[i].title].exists =>
            /\ ~\E k \in 1..Len(trace) : trace[k].error = "FileNotFoundError"
            /\ "chapter_length" \in DOMAIN chapters[i] =>
                   /\ chapters[i].chapter_length = 0
                   /\ ~is_full_chapter(chapters[i])

\* C21: after load_chapters on a fresh BookGenerator with n titles the
\* collection holds n chapters in title order, numbered 1..n in that order;
\* the parts do not decrease along the sequence and two consecutive
\* chapters' parts differ by at most 1, the first part being 0 or 1; so
\* every part from 1 to actCount has a chapter, and no chapter has a
\* fractional number.
C21_LoadedCollection ==
    pc = "loaded" =>
        /\ Len(chapters) = Len(chapter_titles)
        /\ \A i \in 1..Len(chapters) :
               /\ chapters[i].title = chapter_titles[i]
               /\ chapters[i].chapter = 10 * i
               /\ chapters[i].chapter = 10 * PyRound(chapters[i].chapter)
        /\ chapters # <<>> => chapters[1].part \in {0, 1}
        /\ \A i \in 1..(Len(chapters) - 1) :
               /\ chapters[i].part <= chapters[i + 1].part
               /\ chapters[i + 1].part - chapters[i].part <= 1
        /\ \A p \in 1..number_of_acts(chapters) :
               \E i \in 1..Len(chapters) : chapters[i].part = p

\* Titles Part, x, Part: parts 1, 1, 2; no chapter of part 0.
C21_Witness ==
    /\ pc = "loaded"
    /\ Len(chapters) = 3
    /\ chapters[1].part = 1 /\ chapters[2].part = 1 /\ chapters[3].part = 2
    /\ chapters[3].chapter = 30
    /\ number_of_acts(chapters) = 2

----------------------------------------------------------------------------
\* The invariants of the ledger (SpecLedger) and of the report (Spec).

\* A ledger as the program writes it: the header and any number of rows
\* whose number cells all are numbers.
Ledger(file) ==
    /\ file.exists
    /\ file.header = ProgressColumns
    /\ \A i \in 1..Len(file.lines) :
           /\ Len(file.lines[i]) = Len(ProgressColumns)
           /\ \A c \in 2..Len(ProgressColumns) : IsDigits(file.lines[i][c])

NoAdjacentEqual(file) ==
    \A i \in 1..(Len(file.lines) - 1) :
        ParseInt(file.lines[i][TotalWordsColumn])
            # ParseInt(file.lines[i + 1][TotalWordsColumn])

\* C22: an update of a well-formed ledger with no two adjacent rows of
\* equal totalWords, with any report, leaves a well-formed ledger with no
\* two adjacent rows of equal totalWords, of at least the same length, with
\* every row it had at the same position; so this holds after any sequence
\* of updates.
C22_LedgerInvariant ==
    \A u \in 1..Len(history) :
        (Ledger(history[u].pre) /\ NoAdjacentEqual(history[u].pre)) =>
            /\ Ledger(history[u].post)
            /\ NoAdjacentEqual(history[u].post)
            /\ Len(history[u].post.lines) >= Len(history[u].pre.lines)
            /\ SubSeq(history[u].post.lines, 1, Len(history[u].pre.lines))
                   = history[u].pre.lines

\* Two updates of a ledger of two rows: the first appended a row, the
\* second, with the same totalWords, did not.
C22_Witness ==
    /\ UpdatedTwice
    /\ Ledger(FirstOfTwo.pre) /\ NoAdjacentEqual(FirstOfTwo.pre)
    /\ Len(FirstOfTwo.pre.lines) = 2
    /\ Len(FirstOfTwo.post.lines) = 3
    /\ LastUpdate.pre = FirstOfTwo.post
    /\ LastUpdate.post = LastUpdate.pre
    /\ LastUpdate.raised = "none"

\* C23: for a collection whose parts are non-negative integers the per-part
\* records partition it: their chapter counts add up to the number of
\* chapters of the collection and their word totals to the report's
\* totalWords.
C23_PartRecordsPartition ==
    Reported =>
        LET acts == stats.acts_stats
        IN  /\ SumSeq([a \in 1..Len(acts) |-> acts[a].num_chapters])
                   = Len(chapters)
            /\ SumSeq([a \in 1..Len(acts) |-> acts[a].words])
                   = stats.total_words

\* Three chapters in parts 0 and 3, one of them a fragment with words: two
\* records, of 1 and 2 chapters.
C23_Witness ==
    /\ Reported
    /\ Len(chapters) = 3
    /\ {chapters[i].part : i \in Indices} = {0, 3}
    /\ Indices \ FullIndices # {}
    /\ FullIndices # {}
    /\ Len(stats.acts_stats) = 2
    /\ stats.acts_stats[1].num_chapters + stats.acts_stats[2].num_chapters = 3
    /\ stats.acts_stats[1].words + stats.acts_stats[2].words
           = stats.total_words
    /\ stats.total_words > 0

====
